---- MODULE Spec2Model ----
(***************************************************************************)
(* Model of vulkano's "standard" command buffer builders:                  *)
(*   command_buffer/standard/mod.rs            the StdCommandBufferBuilder  *)
(*                                             trait                        *)
(*   command_buffer/standard/primary.rs        StdPrimaryCommandBufferBuilder*)
(*   command_buffer/standard/update_buffer.rs  StdUpdateBufferBuilder       *)
(*                                                                         *)
(* A client owns one builder value: a primary builder, possibly wrapped    *)
(* (by value) in a stack of update-buffer wrappers.  Every call is made on *)
(* the outermost builder and is dispatched inwards.                        *)
(***************************************************************************)
EXTENDS Integers, Sequences, FiniteSets, TLC

\* ------------------------------------------------------------------ bounds
\* Number of trait calls made on the builder after the primary was created.
MaxCalls == 3
\* Number of update-buffer wrappers stacked on the primary.
MaxWrappers == 2
\* Mipmap levels of the one image of the model.
MaxMip == 2

\* ------------------------------------------------------- program constants
\* update_buffer.rs:49  assert!(mem::size_of_val(data) <= 65536)
MaxUpdateSize == 65536
\* update_buffer.rs:47-48  assert_eq!(.. % 4, 0)
UpdateAlign == 4

\* -------------------------------------------------------------- resources
NoLayout == "none"
NoQueue == "none"

Slice(b, o, s) == [kind |-> "buffer", buffer |-> b, offset |-> o, size |-> s]

\* Buffer slices the client uses.  "b1" was created with transfer-destination
\* usage, "b2" without.
usage_transfer_dest(b) == b = "b1"

AlignedSlices == {Slice("b1", 0, 16), Slice("b1", 16, 16), Slice("b1", 8, 16)}

BufferSlices ==
    AlignedSlices \cup {Slice("b1", 2, 16), Slice("b1", 0, 6), Slice("b2", 0, 16)}

DataSizes == {16, MaxUpdateSize, MaxUpdateSize + 1}

\* Half-open ranges start..end, as Rust's Range<u32>.
Ranges(n) == {r \in (0 .. n) \X (0 .. n) : r[1] < r[2]}

Subresource(m, l) == [kind |-> "image", image |-> "img", mipmaps |-> m, layers |-> l]

\* The image has one array layer; the client asks for ranges of its mipmaps.
ImageRanges == {Subresource(m, <<0, 1>>) : m \in Ranges(MaxMip)}

Layouts == {"transfer_dst_optimal", "shader_read_only_optimal"}

AllCells == (0 .. MaxMip - 1) \X {0}

\* The subresources (mipmap, layer) of a range.
Cells(res) ==
    {c \in AllCells :
        /\ res.mipmaps[1] <= c[1] /\ c[1] < res.mipmaps[2]
        /\ res.layers[1] <= c[2] /\ c[2] < res.layers[2]}

\* Two resource references overlap when their memory ranges intersect.
Overlap(a, b) ==
    IF a.kind # b.kind THEN FALSE
    ELSE IF a.kind = "buffer"
         THEN /\ a.buffer = b.buffer
              /\ a.offset < b.offset + b.size
              /\ b.offset < a.offset + a.size
         ELSE /\ a.image = b.image
              /\ Cells(a) \cap Cells(b) # {}

\* ------------------------------------------ the pending pipeline barrier
\* A barrier request, as the arguments of buffer_memory_barrier (plus the
\* destination layout of an image request).  id is the number of the call
\* that issued it, kept for the properties only.
Request(id, res, ss, sa, ds, da, by_region, qt, layout) ==
    [id |-> id, res |-> res, src_stages |-> ss, src_access |-> sa,
     dest_stages |-> ds, dest_access |-> da, by_region |-> by_region,
     queue_transfer_from |-> qt, layout |-> layout]

\* PipelineBarrierBuilder::new(): no entry.
PipelineBarrierBuilder_new == << >>

\* PipelineBarrierBuilder::is_empty()
is_empty(pb) == Len(pb) = 0

Entry(q) ==
    [reqs |-> {q}, src_stages |-> q.src_stages, src_access |-> q.src_access,
     dest_stages |-> q.dest_stages, dest_access |-> q.dest_access]

\* Merging a request into the pending entry: the stage and access sets are
\* combined by union.
Merge(e, q) ==
    [reqs |-> e.reqs \cup {q},
     src_stages |-> e.src_stages \cup q.src_stages,
     src_access |-> e.src_access \cup q.src_access,
     dest_stages |-> e.dest_stages \cup q.dest_stages,
     dest_access |-> e.dest_access \cup q.dest_access]

\* PipelineBarrierBuilder::add_buffer_memory_barrier
add_buffer_memory_barrier(pb, q) ==
    IF is_empty(pb) THEN <<Entry(q)>> ELSE <<Merge(pb[1], q)>>

\* Two requests are incompatible when they target overlapping resources
\* with different destination layouts.
Conflict(a, b) ==
    /\ Overlap(a.res, b.res)
    /\ a.layout # NoLayout
    /\ b.layout # NoLayout
    /\ a.layout # b.layout

PendingRequests(pb) == UNION {pb[i].reqs : i \in 1 .. Len(pb)}

\* ------------------------------------------------- the raw command stream
\* UnsafeCommandBufferBuilder::pipeline_barrier(barrier)
PipelineBarrierCmd(pb) == [kind |-> "pipeline_barrier", barrier |-> pb]

\* The closure a client passes to add_command records one command; id is
\* the number of the call, kept for the properties only.
Command(id) == [kind |-> "command", id |-> id, body |-> "record"]

\* The closure StdUpdateBufferBuilder::flush passes for the update of
\* wrapper k: |cb| unimplemented!()
UpdateCommand(k) == [kind |-> "update_buffer", wrapper |-> k, body |-> "unimplemented"]

\* cmd(&mut self.inner): running the closure on the raw builder.  A body of
\* unimplemented!() panics; a client's closure records its command.
call_closure(b, cmd) ==
    IF cmd.body = "unimplemented"
    THEN [b EXCEPT !.phase = "panicked"]
    ELSE [b EXCEPT !.inner = Append(@, cmd)]

\* ------------------------------------------------ the resource state table
Untouched == [stages |-> {"top_of_pipe"}, access |-> {}, layout |-> NoLayout]

EmptyStates ==
    [buffers |-> [s \in BufferSlices |-> Untouched],
     images |-> [c \in AllCells |-> Untouched]]

\* ----------------------------------------------------------- the builder
\* The sources hold add_command, buffer_memory_barrier and build of the
\* primary builder, and new, flush, add_command, buffer_memory_barrier,
\* current_image_layout and build of the wrapper.  PipelineBarrierBuilder,
\* the transition methods and the primary builder's current_image_layout
\* are declared or called there but not defined; they follow the design
\* document (Barrier Batch, Resource State Table, request_resource_transition).
\* A builder value: the primary builder's fields (inner, staging_barrier),
\* the wrappers around it from the innermost (index 1) to the outermost,
\* and the resource states.  phase tells whether the builder is still
\* recording, was built, or whether a call on it panicked.  now is the
\* number of the running call.

\* ---- StdPrimaryCommandBufferBuilder (primary.rs)

\* Faulty variant of Primary_add_command: the command is recorded first and the
\* pending barrier after it.
Primary_add_command_late(b, cmd) ==
    LET b1 == call_closure(b, cmd)
    IN  IF ~is_empty(b1.staging_barrier) /\ b1.phase # "panicked"
        THEN [b1 EXCEPT !.inner = Append(@, PipelineBarrierCmd(b1.staging_barrier)),
                        !.staging_barrier = PipelineBarrierBuilder_new]
        ELSE b1

\* Faulty variant of Primary_add_command: the staging barrier is emitted but
\* not replaced by a new one.
Primary_add_command_keep(b, cmd) ==
    LET b1 == IF ~is_empty(b.staging_barrier)
              THEN [b EXCEPT !.inner = Append(@, PipelineBarrierCmd(b.staging_barrier))]
              ELSE b
    IN  call_closure(b1, cmd)

\* Faulty variant of Primary_add_command: the staging barrier is emitted
\* whether it is empty or not.
Primary_add_command_always(b, cmd) ==
    call_closure([b EXCEPT !.inner = Append(@, PipelineBarrierCmd(b.staging_barrier)),
                           !.staging_barrier = PipelineBarrierBuilder_new], cmd)

\* add_command: emit the staging barrier if it is not empty, then run cmd.
Primary_add_command(b, cmd) ==
    LET b1 == IF ~is_empty(b.staging_barrier)
              THEN [b EXCEPT !.inner = Append(@, PipelineBarrierCmd(b.staging_barrier)),
                             !.staging_barrier = PipelineBarrierBuilder_new]
              ELSE b
    IN  call_closure(b1, cmd)

\* Faulty variant of Primary_buffer_memory_barrier: the pending barrier is emitted
\* before the request is added.
Primary_buffer_memory_barrier_eager(b, q) ==
    [b EXCEPT !.inner = IF is_empty(b.staging_barrier) THEN @
                        ELSE Append(@, PipelineBarrierCmd(b.staging_barrier)),
              !.staging_barrier = <<Entry(q)>>,
              !.accepted = @ \cup {q}]

\* Faulty variant of Primary_buffer_memory_barrier: the barrier is recorded at
\* once instead of being staged.
Primary_buffer_memory_barrier_now(b, q) ==
    [b EXCEPT !.inner = Append(@, PipelineBarrierCmd(<<Entry(q)>>)),
              !.accepted = @ \cup {q}]

\* buffer_memory_barrier: the request goes to the staging barrier; the raw
\* builder is not touched.
Primary_buffer_memory_barrier(b, q) ==
    [b EXCEPT !.staging_barrier = add_buffer_memory_barrier(@, q),
              !.accepted = @ \cup {q}]

\* build: the raw builder is finalized (and the result unwrapped); the
\* staging barrier is dropped with the builder.
Primary_build(b, ok) ==
    IF ok
    THEN [b EXCEPT !.phase = "built", !.staging_barrier = PipelineBarrierBuilder_new]
    ELSE [b EXCEPT !.phase = "panicked"]

\* transition_buffer_state: the barrier request goes from the recorded state
\* of the slice (top of pipe, no access, when it has none) to the requested
\* one, and the requested state is recorded.
Primary_transition_buffer_state(b, slice, dest_stage, dest_access, by_region) ==
    LET cur == b.states.buffers[slice]
        q == Request(b.now, slice, cur.stages, cur.access, dest_stage, dest_access,
                     by_region, NoQueue, NoLayout)
        b1 == Primary_buffer_memory_barrier(b, q)
    IN  [b1 EXCEPT !.states.buffers[slice] =
                       [stages |-> dest_stage, access |-> dest_access, layout |-> NoLayout]]

\* Faulty variant of Primary_image_memory_barrier: the request is merged without
\* looking for a conflict.
Primary_image_memory_barrier_merge(b, q) ==
    [b EXCEPT !.staging_barrier = add_buffer_memory_barrier(@, q),
              !.accepted = @ \cup {q}]

\* The image equivalent of buffer_memory_barrier: when a pending request
\* covers an overlapping subresource with another destination layout the
\* pending barrier is emitted first and the request starts a new one.
Primary_image_memory_barrier(b, q) ==
    IF \E r \in PendingRequests(b.staging_barrier) : Conflict(r, q)
    THEN [b EXCEPT !.inner = Append(@, PipelineBarrierCmd(b.staging_barrier)),
                   !.staging_barrier =
                       add_buffer_memory_barrier(PipelineBarrierBuilder_new, q),
                   !.accepted = @ \cup {q}]
    ELSE [b EXCEPT !.staging_barrier = add_buffer_memory_barrier(@, q),
                   !.accepted = @ \cup {q}]

\* The state a range of subresources was left in: the union over its cells.
RangeState(b, res) ==
    [stages |-> UNION {b.states.images[c].stages : c \in Cells(res)},
     access |-> UNION {b.states.images[c].access : c \in Cells(res)}]

\* transition_image_state
Primary_transition_image_state(b, res, dest_stage, dest_access, by_region, new_layout) ==
    LET cur == RangeState(b, res)
        q == Request(b.now, res, cur.stages, cur.access, dest_stage, dest_access,
                     by_region, NoQueue, new_layout)
        b1 == Primary_image_memory_barrier(b, q)
    IN  [b1 EXCEPT !.states.images =
                       [c \in AllCells |->
                           IF c \in Cells(res)
                           THEN [stages |-> dest_stage, access |-> dest_access,
                                 layout |-> new_layout]
                           ELSE @[c]],
                   !.touched = @ \cup Cells(res)]

\* current_image_layout: the layout of the range when all of it is in one
\* known layout, unknown (NoLayout) otherwise.
Primary_current_image_layout(b, res) ==
    LET ls == {b.states.images[c].layout : c \in Cells(res)}
    IN  IF Cardinality(ls) = 1 /\ ls # {NoLayout}
        THEN CHOOSE l \in ls : TRUE
        ELSE NoLayout

\* ---- StdUpdateBufferBuilder (update_buffer.rs); k is the wrapper's
\* position in the stack, its inner builder is at k - 1 (0: the primary).

RECURSIVE add_command(_, _, _)
RECURSIVE buffer_memory_barrier(_, _, _)
RECURSIVE build(_, _, _)

\* Faulty variant of flush: the flushed flag is not looked at.
flush_always(k, b) ==
    add_command(k - 1, [b EXCEPT !.wrappers[k].flushed = TRUE], UpdateCommand(k))

\* flush
flush(k, b) ==
    IF b.wrappers[k].flushed
    THEN b
    ELSE add_command(k - 1, [b EXCEPT !.wrappers[k].flushed = TRUE], UpdateCommand(k))

\* add_command: flush, then the inner builder's add_command.  A panic in
\* flush unwinds through the method: the rest of it does not run.
Update_add_command(k, b, cmd) ==
    LET b1 == flush(k, b)
    IN  IF b1.phase = "panicked" THEN b1 ELSE add_command(k - 1, b1, cmd)

\* buffer_memory_barrier: flush, then the inner builder's method.
Update_buffer_memory_barrier(k, b, q) ==
    LET b1 == flush(k, b)
    IN  IF b1.phase = "panicked" THEN b1 ELSE buffer_memory_barrier(k - 1, b1, q)

\* build: flush, then the inner builder's build.
Update_build(k, b, ok) ==
    LET b1 == flush(k, b)
    IN  IF b1.phase = "panicked" THEN b1 ELSE build(k - 1, b1, ok)

\* Faulty variant of Update_current_image_layout: the wrapper answers unknown itself.
Update_current_image_layout_unknown(k, b, res) == NoLayout

\* current_image_layout: forwarded to the inner builder, down to the primary.
Update_current_image_layout(k, b, res) == Primary_current_image_layout(b, res)

\* The transition requests are forwarded to the inner builder, down to the
\* primary, without a flush.
Update_transition_buffer_state(k, b, slice, dest_stage, dest_access, by_region) ==
    Primary_transition_buffer_state(b, slice, dest_stage, dest_access, by_region)

Update_transition_image_state(k, b, res, dest_stage, dest_access, by_region, new_layout) ==
    Primary_transition_image_state(b, res, dest_stage, dest_access, by_region, new_layout)

\* ---- StdCommandBufferBuilder (mod.rs): a call on the builder at level k.

add_command(k, b, cmd) ==
    IF k = 0 THEN Primary_add_command(b, cmd) ELSE Update_add_command(k, b, cmd)

buffer_memory_barrier(k, b, q) ==
    IF k = 0 THEN Primary_buffer_memory_barrier(b, q)
    ELSE Update_buffer_memory_barrier(k, b, q)

build(k, b, ok) ==
    IF k = 0 THEN Primary_build(b, ok) ELSE Update_build(k, b, ok)

transition_buffer_state(k, b, slice, dest_stage, dest_access, by_region) ==
    IF k = 0
    THEN Primary_transition_buffer_state(b, slice, dest_stage, dest_access, by_region)
    ELSE Update_transition_buffer_state(k, b, slice, dest_stage, dest_access, by_region)

transition_image_state(k, b, res, dest_stage, dest_access, by_region, new_layout) ==
    IF k = 0
    THEN Primary_transition_image_state(b, res, dest_stage, dest_access, by_region,
                                        new_layout)
    ELSE Update_transition_image_state(k, b, res, dest_stage, dest_access, by_region,
                                       new_layout)

current_image_layout(k, b, res) ==
    IF k = 0 THEN Primary_current_image_layout(b, res)
    ELSE Update_current_image_layout(k, b, res)

\* Faulty variant of Update_current_image_layout_call: the wrapper flushes
\* before it forwards the query.
Update_current_image_layout_call_flush(k, b, res) ==
    LET b1 == flush(k, b)
    IN  [builder |-> b1, ret |-> Update_current_image_layout(k, b1, res)]

\* The call of current_image_layout on a wrapper: the builder it leaves
\* (the method takes &self and only forwards) and the value it returns.
Update_current_image_layout_call(k, b, res) ==
    [builder |-> b, ret |-> Update_current_image_layout(k, b, res)]

\* The call of current_image_layout on the builder at level k.
current_image_layout_call(k, b, res) ==
    IF k = 0 THEN [builder |-> b, ret |-> Primary_current_image_layout(b, res)]
    ELSE Update_current_image_layout_call(k, b, res)

\* The preconditions StdUpdateBufferBuilder::new asserts.
UpdateValid(slice, data) ==
    /\ slice.offset % UpdateAlign = 0
    /\ slice.size % UpdateAlign = 0
    /\ data <= MaxUpdateSize
    /\ usage_transfer_dest(slice.buffer)

Wrapper(slice, data) == [buffer |-> slice.buffer, data |-> data, flushed |-> FALSE]

\* Faulty variant of Update_new: the state is requested before the assertions.
Update_new_request_first(b, slice, data) ==
    LET b1 == transition_buffer_state(Len(b.wrappers), b, slice, {"transfer"},
                                      {"transfer_write"}, TRUE)
    IN  IF ~UpdateValid(slice, data)
        THEN [b1 EXCEPT !.phase = "panicked"]
        ELSE [b1 EXCEPT !.wrappers = Append(@, Wrapper(slice, data))]

\* Faulty variant of Update_new: the state is requested for reading.
Update_new_transfer_read(b, slice, data) ==
    IF ~UpdateValid(slice, data)
    THEN [b EXCEPT !.phase = "panicked"]
    ELSE LET b1 == transition_buffer_state(Len(b.wrappers), b, slice, {"transfer"},
                                           {"transfer_read"}, TRUE)
         IN  [b1 EXCEPT !.wrappers = Append(@, Wrapper(slice, data))]

\* Faulty variant of Update_new: the wrapper is made as already flushed.
Update_new_flushed(b, slice, data) ==
    IF ~UpdateValid(slice, data)
    THEN [b EXCEPT !.phase = "panicked"]
    ELSE LET b1 == transition_buffer_state(Len(b.wrappers), b, slice, {"transfer"},
                                           {"transfer_write"}, TRUE)
         IN  [b1 EXCEPT !.wrappers =
                            Append(@, [Wrapper(slice, data) EXCEPT !.flushed = TRUE])]

\* StdUpdateBufferBuilder::new (reached through update_buffer of the trait):
\* the assertions, the state request on the inner builder, the wrapper.
Update_new(b, slice, data) ==
    IF ~UpdateValid(slice, data)
    THEN [b EXCEPT !.phase = "panicked"]
    ELSE LET b1 == transition_buffer_state(Len(b.wrappers), b, slice, {"transfer"},
                                           {"transfer_write"}, TRUE)
         IN  [b1 EXCEPT !.wrappers = Append(@, Wrapper(slice, data))]

\* ------------------------------------------------------------------- state
VARIABLES
    phase,            \* "unopened", "recording", "built" or "panicked"
    inner,            \* StdPrimaryCommandBufferBuilder.inner: what was recorded
    staging_barrier,  \* StdPrimaryCommandBufferBuilder.staging_barrier
    wrappers,         \* the StdUpdateBufferBuilder values, innermost first
    states,           \* the resource states the transitions record
    accepted,         \* history: the barrier requests the primary accepted
    touched,          \* history: the image cells a transition was requested for
    calls,            \* history: the trait methods called, in order
    last              \* history: the last call, its arguments and its result

vars == <<phase, inner, staging_barrier, wrappers, states, accepted, touched, calls, last>>

Builder ==
    [phase |-> phase, inner |-> inner, staging_barrier |-> staging_barrier,
     wrappers |-> wrappers, states |-> states, accepted |-> accepted,
     touched |-> touched, now |-> Len(calls) + 1]

\* The outermost builder, the one the client holds.
Top == Len(wrappers)

Returns(b, call, record) ==
    /\ phase' = b.phase
    /\ inner' = b.inner
    /\ staging_barrier' = b.staging_barrier
    /\ wrappers' = b.wrappers
    /\ states' = b.states
    /\ accepted' = b.accepted
    /\ touched' = b.touched
    /\ calls' = Append(calls, call)
    /\ last' = record

Recording == phase = "recording" /\ Len(calls) < MaxCalls

\* The stage and access sets the client's barrier requests use.
BarrierKinds ==
    {[ss |-> {"compute_shader"}, sa |-> {"shader_write"},
      ds |-> {"transfer"}, da |-> {"transfer_read"}],
     [ss |-> {"transfer"}, sa |-> {"transfer_write"},
      ds |-> {"vertex_input"}, da |-> {"vertex_attribute_read"}]}

Init ==
    /\ phase = "unopened"
    /\ inner = << >>
    /\ staging_barrier = PipelineBarrierBuilder_new
    /\ wrappers = << >>
    /\ states = EmptyStates
    /\ accepted = {}
    /\ touched = {}
    /\ calls = << >>
    /\ last = [call |-> "none"]

\* StdPrimaryCommandBufferBuilder::new(pool): opening the raw builder may
\* fail, and the result is unwrapped.
PrimaryNew ==
    /\ phase = "unopened"
    /\ \E ok \in BOOLEAN :
          /\ phase' = IF ok THEN "recording" ELSE "panicked"
          /\ last' = [call |-> "new", ok |-> ok]
    /\ UNCHANGED <<inner, staging_barrier, wrappers, states, accepted, touched, calls>>

\* builder.update_buffer(buffer, data)
UpdateBuffer ==
    /\ Recording
    /\ Len(wrappers) < MaxWrappers
    /\ \E slice \in BufferSlices, data \in DataSizes :
          Returns(Update_new(Builder, slice, data), "update_buffer",
                  [call |-> "update_buffer", slice |-> slice, data |-> data])

\* builder.add_command(cmd)
AddCommand ==
    /\ Recording
    /\ LET cmd == Command(Len(calls) + 1)
       IN  Returns(add_command(Top, Builder, cmd), "add_command",
                   [call |-> "add_command", cmd |-> cmd])

\* builder.buffer_memory_barrier(buffer, src_stages, src_access, dest_stages,
\*                               dest_access, by_region, queue_transfer_from)
BufferMemoryBarrier ==
    /\ Recording
    /\ \E slice \in AlignedSlices, k \in BarrierKinds :
          LET q == Request(Len(calls) + 1, slice, k.ss, k.sa, k.ds, k.da, TRUE,
                           NoQueue, NoLayout)
          IN  Returns(buffer_memory_barrier(Top, Builder, q), "buffer_memory_barrier",
                      [call |-> "buffer_memory_barrier", req |-> q])

\* builder.transition_image_state(image, mipmaps, layers, dest_stage,
\*                                dest_access, by_region, new_layout)
TransitionImageState ==
    /\ Recording
    /\ \E res \in ImageRanges, l \in Layouts :
          Returns(transition_image_state(Top, Builder, res, {"fragment_shader"},
                                         {"shader_read"}, TRUE, l),
                  "transition_image_state",
                  [call |-> "transition_image_state", res |-> res, layout |-> l])

\* builder.current_image_layout(image, mipmaps, layers)
CurrentImageLayout ==
    /\ Recording
    /\ \E res \in ImageRanges :
          LET r == current_image_layout_call(Top, Builder, res)
          IN  Returns(r.builder, "current_image_layout",
                      [call |-> "current_image_layout", res |-> res, ret |-> r.ret])

\* builder.build(): finalizing the raw builder may fail.
Build ==
    /\ Recording
    /\ \E ok \in BOOLEAN :
          Returns(build(Top, Builder, ok), "build", [call |-> "build", ok |-> ok])

Next ==
    \/ PrimaryNew
    \/ UpdateBuffer
    \/ AddCommand
    \/ BufferMemoryBarrier
    \/ TransitionImageState
    \/ CurrentImageLayout
    \/ Build

Spec == Init /\ [][Next]_vars

\* ------------------------------------------------------------ properties
\* The requests the barrier at position p of the raw stream carries.
CarriedAt(p) ==
    IF inner[p].kind = "pipeline_barrier" THEN PendingRequests(inner[p].barrier) ELSE {}

CommandsRecorded == {j \in 1 .. Len(inner) : inner[j].kind = "command"}

UpdatesRecorded == {j \in 1 .. Len(inner) : inner[j].kind = "update_buffer"}

\* C1 (flush before use): every barrier request accepted before the call of
\* add_command that recorded a command is carried by a pipeline barrier at a
\* position of the raw stream strictly before that command, and no barrier
\* carrying such a request stands after the command.
C1_FlushBeforeUse ==
    \A j \in CommandsRecorded :
        \A q \in accepted :
            q.id < inner[j].id =>
                /\ \E p \in 1 .. (j - 1) : q \in CarriedAt(p)
                /\ \A p \in (j + 1) .. Len(inner) : q \notin CarriedAt(p)

\* Two requests were accepted by the primary builder, then add_command
\* recorded a command: the stream is one barrier carrying both, then the
\* command.
C1_Witness ==
    /\ Len(wrappers) = 0
    /\ Len(inner) = 2
    /\ inner[2].kind = "command"
    /\ Cardinality(CarriedAt(1)) = 2
    /\ \A q \in CarriedAt(1) : q.id < inner[2].id

\* C2 (no accepted request is lost): once build() returned, every barrier
\* request accepted before it is carried by a pipeline barrier of the
\* finalized raw stream.
C2_NoRequestLost ==
    phase = "built" => \A q \in accepted : \E p \in 1 .. Len(inner) : q \in CarriedAt(p)

\* The resources the requests carried by the barrier at position p name.
ResourcesAt(p) == {q.res : q \in CarriedAt(p)}

\* build() was the last call, on a stack of n wrappers, and finalizing the
\* raw builder was not the call that failed.
BuildCalledOn(n) == last.call = "build" /\ last.ok /\ Len(wrappers) = n

\* C3 (decorator transparency): after build() was called on a wrapped
\* builder, whatever calls came before, the raw stream holds the update of
\* every wrapper exactly once.
C3_UpdateExactlyOnce ==
    \A n \in 1 .. MaxWrappers :
        BuildCalledOn(n) =>
            \A k \in 1 .. n :
                Cardinality({j \in UpdatesRecorded : inner[j].wrapper = k}) = 1

\* C4 (two stacked decorators): two wrappers on disjoint regions, then
\* build() and no other call: the raw stream is one barrier of one merged
\* entry covering both regions, then the update of the wrapper applied
\* first, then the update of the second.
C4_TwoStacked ==
    ( /\ BuildCalledOn(2)
      /\ calls = <<"update_buffer", "update_buffer", "build">>
      /\ \A q1, q2 \in accepted : q1 # q2 => ~Overlap(q1.res, q2.res) )
    => /\ Len(inner) = 3
       /\ inner[1].kind = "pipeline_barrier"
       /\ Len(inner[1].barrier) = 1
       /\ CarriedAt(1) = accepted
       /\ Cardinality(ResourcesAt(1)) = 2
       /\ inner[2] = UpdateCommand(1)
       /\ inner[3] = UpdateCommand(2)

\* C5 (simple update): one wrapper with valid arguments on a new primary
\* builder, then build() and no other call: the raw stream is one barrier
\* for the region, to the transfer stage and transfer-write access, then one
\* update, and nothing else.
C5_SimpleUpdate ==
    ( /\ BuildCalledOn(1)
      /\ calls = <<"update_buffer", "build">> )
    => /\ Len(inner) = 2
       /\ inner[1].kind = "pipeline_barrier"
       /\ Len(inner[1].barrier) = 1
       /\ inner[1].barrier[1].dest_stages = {"transfer"}
       /\ inner[1].barrier[1].dest_access = {"transfer_write"}
       /\ CarriedAt(1) = accepted
       /\ Cardinality(ResourcesAt(1)) = 1
       /\ inner[2] = UpdateCommand(1)

\* The preconditions of the update, as the claim lists them.
Violated(slice, data) ==
    \/ data > MaxUpdateSize
    \/ slice.offset % UpdateAlign # 0
    \/ slice.size % UpdateAlign # 0
    \/ ~usage_transfer_dest(slice.buffer)

\* C6 (rejected update): a call of update_buffer with a violated
\* precondition fails (panics) and leaves the raw stream, the staging
\* barrier, the recorded states and the accepted requests as they were: no
\* transition was requested and no wrapper was made.
C6_RejectedUpdate ==
    [][ ( /\ calls' # calls
          /\ last'.call = "update_buffer"
          /\ Violated(last'.slice, last'.data) )
        => /\ phase' = "panicked"
           /\ UNCHANGED <<inner, staging_barrier, states, accepted, wrappers>> ]_vars

\* An update with a payload of 65537 bytes was rejected while a barrier was
\* pending.
C6_Witness ==
    /\ last.call = "update_buffer"
    /\ last.data = MaxUpdateSize + 1
    /\ phase = "panicked"
    /\ ~is_empty(staging_barrier)
    /\ accepted = PendingRequests(staging_barrier)

\* The step is a call of buffer_memory_barrier; its request is last'.req.
BarrierCall == calls' # calls /\ last'.call = "buffer_memory_barrier"

\* C7 (merge correctness): two barrier requests on non-overlapping resources
\* made one after the other on a primary builder whose staging barrier was
\* empty leave one merged entry, whose stage and access sets are the unions
\* of the two requests' sets, and the raw stream as it was.
C7_MergeCorrectness ==
    [][ ( /\ BarrierCall
          /\ Len(wrappers) = 0
          /\ last.call = "buffer_memory_barrier"
          /\ PendingRequests(staging_barrier) = {last.req}
          /\ ~Overlap(last.req.res, last'.req.res) )
        => /\ inner' = inner
           /\ Len(staging_barrier') = 1
           /\ staging_barrier'[1].reqs = {last.req, last'.req}
           /\ staging_barrier'[1].src_stages = last.req.src_stages \cup last'.req.src_stages
           /\ staging_barrier'[1].src_access = last.req.src_access \cup last'.req.src_access
           /\ staging_barrier'[1].dest_stages = last.req.dest_stages \cup last'.req.dest_stages
           /\ staging_barrier'[1].dest_access = last.req.dest_access \cup last'.req.dest_access
      ]_vars

\* Two requests with different stage and access sets, on regions that do not
\* overlap, were made one after the other on the primary builder.
C7_Witness ==
    /\ Len(wrappers) = 0
    /\ calls = <<"buffer_memory_barrier", "buffer_memory_barrier">>
    /\ inner = << >>
    /\ Len(staging_barrier) = 1
    /\ \E q1, q2 \in staging_barrier[1].reqs :
          /\ ~Overlap(q1.res, q2.res)
          /\ q1.dest_stages # q2.dest_stages
          /\ staging_barrier[1].dest_stages = q1.dest_stages \cup q2.dest_stages

\* No two pending requests target overlapping resources with different
\* destination layouts.
Compatible(pb) == \A r1, r2 \in PendingRequests(pb) : ~Conflict(r1, r2)

\* C8 (batch compatibility): the pending barrier never holds two requests on
\* overlapping resources with different destination layouts; when a new
\* request conflicts with a pending one, the pending barrier is emitted to
\* the raw stream and the new request is alone in the staging barrier.
C8_BatchCompatible ==
    /\ [] Compatible(staging_barrier)
    /\ [][ \A q \in accepted' \ accepted :
              (\E r \in PendingRequests(staging_barrier) : Conflict(r, q))
              => /\ inner' = Append(inner, PipelineBarrierCmd(staging_barrier))
                 /\ PendingRequests(staging_barrier') = {q} ]_vars

\* A transition to another layout of a subresource with a pending transition:
\* the first one is in the raw stream, the second one is pending.
C8_Witness ==
    /\ Len(inner) = 1
    /\ inner[1].kind = "pipeline_barrier"
    /\ \E r \in CarriedAt(1), q \in PendingRequests(staging_barrier) : Conflict(r, q)

\* C9 (wrapper barrier merging, as the trait documents it): a barrier
\* requested on a wrapper that has not flushed, and that can be merged with
\* the pending barrier, changes nothing else: the wrapper's command is not
\* emitted by the call and the wrapper stays unflushed.
C9_MergeWithoutFlush ==
    [][ ( /\ BarrierCall
          /\ Len(wrappers) >= 1
          /\ ~wrappers[Len(wrappers)].flushed
          /\ \A r \in PendingRequests(staging_barrier) : ~Conflict(r, last'.req) )
        => /\ inner' = inner
           /\ ~wrappers'[Len(wrappers)].flushed
           /\ phase' = "recording" ]_vars

\* C10 (layout query consistency): right after transition_image_state on a
\* range with new_layout L, current_image_layout on the outermost builder
\* answers L for that range; for every range none of whose subresources a
\* transition was requested for, it answers unknown.
C10_LayoutQuery ==
    /\ last.call = "transition_image_state" =>
           current_image_layout(Top, Builder, last.res) = last.layout
    /\ \A res \in ImageRanges :
           Cells(res) \cap touched = {} =>
               current_image_layout(Top, Builder, res) = NoLayout

\* A transition of one mipmap was requested through a wrapper; the query
\* through the wrapper answers its layout, and another mipmap is untouched.
C10_Witness ==
    /\ Len(wrappers) >= 1
    /\ last.call = "transition_image_state"
    /\ current_image_layout(Top, Builder, last.res) = last.layout
    /\ last.layout \in Layouts
    /\ \E res \in ImageRanges : Cells(res) \cap touched = {}

\* C11 (environment failures are recoverable): when opening the raw builder
\* fails in StdPrimaryCommandBufferBuilder::new, or finalizing it fails in
\* build() of the primary builder, the call returns the error and does not
\* panic.
C11_FailuresRecoverable ==
    ( /\ last.call \in {"new", "build"}
      /\ Len(wrappers) = 0
      /\ ~last.ok )
    => phase # "panicked"

\* The step is a call of update_buffer whose assertions hold.
UpdateCall ==
    /\ calls' # calls
    /\ last'.call = "update_buffer"
    /\ ~Violated(last'.slice, last'.data)

\* The step is a call of transition_image_state.
ImageTransitionCall == calls' # calls /\ last'.call = "transition_image_state"

\* The one request the step made the primary builder accept is q.
Accepts(q) == accepted' = accepted \cup {q} /\ q \notin accepted

\* C12 (first-touch transition): a transition requested for a resource with
\* no recorded state (here by the construction of a wrapper, to transfer /
\* transfer-write, or by transition_image_state) makes one barrier request
\* from top of pipe and no access to the requested stage and access, adds it
\* to the staging barrier, and records the requested state for the resource.
C12_FirstTouch ==
    [][ /\ ( UpdateCall /\ (\A q \in accepted : q.res # last'.slice) )
           => \E q \in PendingRequests(staging_barrier') :
                 /\ Accepts(q)
                 /\ q.res = last'.slice
                 /\ q.src_stages = {"top_of_pipe"}
                 /\ q.src_access = {}
                 /\ q.dest_stages = {"transfer"}
                 /\ q.dest_access = {"transfer_write"}
                 /\ states'.buffers[last'.slice].stages = {"transfer"}
                 /\ states'.buffers[last'.slice].access = {"transfer_write"}
        /\ ( ImageTransitionCall /\ Cells(last'.res) \cap touched = {} )
           => \E q \in PendingRequests(staging_barrier') :
                 /\ Accepts(q)
                 /\ q.res = last'.res
                 /\ q.src_stages = {"top_of_pipe"}
                 /\ q.src_access = {}
                 /\ q.layout = last'.layout
                 /\ \A c \in Cells(last'.res) :
                       /\ states'.images[c].stages = q.dest_stages
                       /\ states'.images[c].access = q.dest_access
                       /\ states'.images[c].layout = last'.layout
      ]_vars

\* A wrapper was made for a slice that no request named before, while
\* another request was pending.
C12_Witness ==
    /\ last.call = "update_buffer"
    /\ phase = "recording"
    /\ Cardinality({q \in accepted : q.res = last.slice}) = 1
    /\ Cardinality(PendingRequests(staging_barrier)) = 2
    /\ states.buffers[last.slice].access = {"transfer_write"}

\* C13 (batch empty after an operation): after a call of add_command, on the
\* primary builder or on any stack of wrappers, the staging barrier of the
\* primary builder is empty.
C13_EmptyAfterCommand ==
    last.call = "add_command" => is_empty(staging_barrier)

\* add_command returned on the primary builder after it emitted a pending
\* barrier.
C13_Witness ==
    /\ last.call = "add_command"
    /\ phase = "recording"
    /\ Len(wrappers) = 0
    /\ Len(inner) = 2
    /\ inner[1].kind = "pipeline_barrier"
    /\ inner[2] = last.cmd
    /\ is_empty(staging_barrier)

\* C14 (a barrier request is lazy): buffer_memory_barrier on the primary
\* builder adds the request to the staging barrier and changes nothing else;
\* the raw stream stays as it was (no buffer request forces a flush).
C14_LazyBarrier ==
    [][ ( BarrierCall /\ Len(wrappers) = 0 )
        => /\ Accepts(last'.req)
           /\ PendingRequests(staging_barrier') =
                  PendingRequests(staging_barrier) \cup {last'.req}
           /\ UNCHANGED <<inner, phase, wrappers, states, touched>> ]_vars

\* A barrier was requested on the primary builder after a command was
\* recorded: the request is pending and the raw stream holds the command only.
C14_Witness ==
    /\ calls = <<"add_command", "buffer_memory_barrier">>
    /\ Len(wrappers) = 0
    /\ Len(inner) = 1
    /\ inner[1].kind = "command"
    /\ PendingRequests(staging_barrier) = {last.req}

\* C15 (deferred construction): a successful construction of a wrapper makes
\* the inner builder accept one request for the slice, to the transfer stage
\* and transfer-write access, appends nothing to the raw stream, and leaves
\* the new wrapper unflushed (and the wrappers below as they were).
C15_DeferredConstruction ==
    [][ UpdateCall
        => /\ inner' = inner
           /\ phase' = "recording"
           /\ Len(wrappers') = Len(wrappers) + 1
           /\ ~wrappers'[Len(wrappers')].flushed
           /\ \A k \in 1 .. Len(wrappers) : wrappers'[k] = wrappers[k]
           /\ \E q \in PendingRequests(staging_barrier') :
                 /\ Accepts(q)
                 /\ q.res = last'.slice
                 /\ q.dest_stages = {"transfer"}
                 /\ q.dest_access = {"transfer_write"} ]_vars

\* A second wrapper was made on a wrapper, after a command was recorded: the
\* raw stream still holds the command only and both wrappers are unflushed.
C15_Witness ==
    /\ calls = <<"add_command", "update_buffer", "update_buffer">>
    /\ Len(wrappers) = 2
    /\ ~wrappers[1].flushed /\ ~wrappers[2].flushed
    /\ Len(inner) = 1
    /\ Cardinality(PendingRequests(staging_barrier)) = 2

\* add_command and buffer_memory_barrier take &mut self: when one of them
\* panics the client still owns the builder, and a client that catches the
\* unwinding (std::panic::catch_unwind) goes on with it as the panic left it.
CatchUnwind ==
    /\ phase = "panicked"
    /\ last.call \in {"add_command", "buffer_memory_barrier"}
    /\ phase' = "recording"
    /\ last' = [call |-> "catch_unwind"]
    /\ UNCHANGED <<inner, staging_barrier, wrappers, states, accepted, touched, calls>>

\* The builder with clients that catch panics.
SpecUnwind == Init /\ [][Next \/ CatchUnwind]_vars

\* The step is a call on an outermost wrapper that has flushed.
FlushedCall(name) ==
    /\ calls' # calls
    /\ last'.call = name
    /\ phase = "recording"
    /\ Len(wrappers) >= 1
    /\ wrappers[Len(wrappers)].flushed

\* The step left the raw stream, the staging barrier and the builder as r.
SameAs(r) ==
    /\ inner' = r.inner
    /\ staging_barrier' = r.staging_barrier
    /\ phase' = r.phase
    /\ wrappers' = r.wrappers

\* C16 (pass-through after the first flush): a flushed flag that is true
\* stays true, and add_command, buffer_memory_barrier and build on a wrapper
\* that has flushed do what the same call does on its inner builder.
C16_PassThrough ==
    [][ /\ \A k \in 1 .. Len(wrappers) :
              wrappers[k].flushed => (k <= Len(wrappers') /\ wrappers'[k].flushed)
        /\ FlushedCall("add_command") =>
              SameAs(add_command(Len(wrappers) - 1, Builder, last'.cmd))
        /\ FlushedCall("buffer_memory_barrier") =>
              SameAs(buffer_memory_barrier(Len(wrappers) - 1, Builder, last'.req))
        /\ FlushedCall("build") =>
              SameAs(build(Len(wrappers) - 1, Builder, last'.ok))
      ]_vars

\* After a caught panic of its flush, the wrapper was asked to add a command
\* and the command is the last entry of the raw stream.
C16_Witness ==
    /\ last.call = "add_command"
    /\ phase = "recording"
    /\ Len(wrappers) >= 1
    /\ wrappers[Len(wrappers)].flushed
    /\ Len(inner) >= 1
    /\ inner[Len(inner)] = last.cmd

\* The step is a call of current_image_layout on a wrapper.
LayoutQueryCall ==
    /\ calls' # calls
    /\ last'.call = "current_image_layout"
    /\ Len(wrappers) >= 1

\* C17 (the layout query is side-effect free): current_image_layout on a
\* wrapper returns what its inner builder returns, does not flush, and leaves
\* the flushed flags, the staging barrier and the raw stream as they were.
C17_QueryNoEffect ==
    [][ LayoutQueryCall
        => /\ last'.ret = current_image_layout(Len(wrappers) - 1, Builder, last'.res)
           /\ UNCHANGED <<inner, staging_barrier, wrappers, states, phase,
                          accepted, touched>> ]_vars

\* The layout was asked of an unflushed wrapper while its transition request
\* was pending: the request is still pending and the raw stream is empty.
C17_Witness ==
    /\ last.call = "current_image_layout"
    /\ Len(wrappers) >= 1
    /\ ~wrappers[Len(wrappers)].flushed
    /\ ~is_empty(staging_barrier)
    /\ inner = << >>
    /\ phase = "recording"

\* The positions of the raw stream that hold a pipeline barrier.
BarriersRecorded == {p \in 1 .. Len(inner) : inner[p].kind = "pipeline_barrier"}

\* C18 (no empty barrier): no pipeline barrier of the raw stream is empty,
\* and add_command on the primary builder appends the command alone when the
\* staging barrier is empty and the staging barrier followed by the command
\* when it is not.
C18_NoEmptyBarrier ==
    /\ [](\A p \in BarriersRecorded : ~is_empty(inner[p].barrier))
    /\ [][ ( calls' # calls /\ last'.call = "add_command" /\ Len(wrappers) = 0 )
           => inner' = IF is_empty(staging_barrier)
                       THEN Append(inner, last'.cmd)
                       ELSE inner \o <<PipelineBarrierCmd(staging_barrier), last'.cmd>>
         ]_vars

\* The primary builder recorded a command with an empty staging barrier and a
\* second one with a pending request: one barrier stands between them.
C18_Witness ==
    /\ calls = <<"add_command", "buffer_memory_barrier", "add_command">>
    /\ Len(wrappers) = 0
    /\ Len(inner) = 3
    /\ inner[1].kind = "command"
    /\ inner[2].kind = "pipeline_barrier"
    /\ ~is_empty(inner[2].barrier)
    /\ inner[3] = last.cmd

\* C19 (barrier then operation): every pipeline barrier of the raw stream is
\* immediately followed by an entry that is not a barrier, so the stream
\* holds no two consecutive barriers, does not end with a barrier, and has
\* at most as many barriers as other entries.
C19_BarrierThenOperation ==
    /\ \A p \in BarriersRecorded :
          /\ p < Len(inner)
          /\ inner[p + 1].kind # "pipeline_barrier"
    /\ Cardinality(BarriersRecorded) <= Len(inner) - Cardinality(BarriersRecorded)

\* C19 on the calls whose code is in the source files alone: no image
\* transition was requested.
C19_WithoutImageTransitions ==
    (\A i \in 1 .. Len(calls) : calls[i] # "transition_image_state")
        => C19_BarrierThenOperation

\* C19 in the states a call returned to: the builder did not panic.
C19_WithoutPanic ==
    phase # "panicked" => C19_WithoutImageTransitions

====
